---------------------------- MODULE Spec2Model ----------------------------
(***************************************************************************)
(* A model of the OBS-to-XAir bridge (src/__main__.py): the Observer that  *)
(* turns OBS scene changes into mute / unmute / toggle calls on the mixer  *)
(* strips, load_config's search for the configuration file, and main's     *)
(* scoped lifetime of the mixer and the two OBS clients.                   *)
(*                                                                         *)
(* Two execution contexts: the controlling thread (main) and the delivery  *)
(* context of the OBS event client, which invokes the registered callbacks.*)
(* Every mixer access (a get or a set of strip[i].mute) is one step.       *)
(***************************************************************************)
EXTENDS Integers, Sequences, FiniteSets, TLC

\* ------------------------------------------------------------------ bounds
\* Strips of the connected mixer: strip[0] .. strip[NumStrips-1].
NumStrips == 2
\* Size of an ActionSet: each key counts for max(1, number of its indices).
MaxPairs == 2

\* -------------------------------------------------------------- data model
Channels == 0 .. (NumStrips - 1)

\* Indices a configuration declares: the documented 1-based ones, one past
\* the mixer's last strip, and 0 (outside the documented domain).
DeclaredIndices == 0 .. (NumStrips + 1)

\* The keys of the `actions` dict of on_current_program_scene_changed.
ActionKinds == {"mute", "unmute", "toggle"}

\* Keys an ActionSet may hold: the recognised ones and one that is unknown.
Keys == ActionKinds \cup {"solo"}

SceneNames == {"Live", "Break", "Other"}

Max(a, b) == IF a >= b THEN a ELSE b

IndexSeqs(n) == UNION {[1 .. k -> DeclaredIndices] : k \in 0 .. n}

RECURSIVE Cost(_)
Cost(aset) ==
    IF aset = <<>> THEN 0
    ELSE Max(1, Len(Head(aset).indices)) + Cost(Tail(aset))

\* An ActionSet is a TOML table: keys are distinct and keep their declared
\* order (a Python dict iterates in insertion order).
DistinctKeys(aset) ==
    \A a, b \in 1 .. Len(aset) : a # b => aset[a].kind # aset[b].kind

ActionSets ==
    UNION {{aset \in [1 .. n -> [kind : Keys,
                                  indices : IndexSeqs(MaxPairs - n + 1)]] :
                DistinctKeys(aset) /\ Cost(aset) <= MaxPairs} :
           n \in 0 .. MaxPairs}

\* scene_mapping with one mapped scene, "Live".
OneSceneMapping(aset) == <<[name |-> "Live", actions |-> aset]>>

VARIABLES
    pc,          \* position of the controlling thread in main()
    exc,         \* the exception propagating in the controlling thread, or ""
    argname,     \* the --config argument: "rel"ative or "abs"olute
    fs,          \* what each candidate location holds
    filepath,    \* the location get_filepath returned, "" before and if none
    mapping,     \* Observer._mapping (config["scene_mapping"])
    conn,        \* per client: "none", "open", "closed"
    released,    \* per client: number of release (disconnect / logout) calls
    registered,  \* callbacks registered on the event client
    stop_event,  \* threading.Event
    mute,        \* the mixer: mute flag of each strip
    wpc,         \* per delivery thread: position in the callback
    wscene,      \* per delivery thread: data.scene_name of its invocation
    wk,          \* per delivery thread: position in map_.items()
    wj,          \* per delivery thread: position in indices
    wtmp,        \* per delivery thread: value read by _toggle_handler
    calls,       \* per delivery thread: mixer accesses of its invocation
    pre,         \* per delivery thread: mixer state when its invocation began
    prev,        \* per delivery thread: <<pre of the invocation before>> when
                 \* that one was for the same scene, which has actions, and
                 \* returned; else <<>>
    outcome      \* per delivery thread: how its last invocation ended

mainVars == <<pc, exc, argname, fs, filepath, mapping, conn, released,
              registered>>
workerVars == <<wpc, wscene, wk, wj, wtmp, calls, pre, prev, outcome>>
vars == <<pc, exc, argname, fs, filepath, mapping, conn, released,
          registered, stop_event, mute, wpc, wscene, wk, wj, wtmp, calls,
          pre, prev, outcome>>

Clients == {"mixer", "request", "event"}
Threads == {"t1", "t2"}

\* ------------------------------------------------------------- dispatcher

\* A lookup that falls back to the first table when the name is absent.
MappingGetFaulty(m, scene) ==
    IF m = <<>> THEN <<>> ELSE <<m[1].actions>>
\* self._mapping.get(scene): the ActionSets stored under the name (none or
\* one, names being unique).
MappingGet(m, scene) ==
    LET hits == {n \in 1 .. Len(m) : m[n].name = scene}
    IN IF hits = {} THEN <<>> ELSE <<m[CHOOSE n \in hits : TRUE].actions>>

\* `not (map_ := self._mapping.get(scene))`: None, or an empty table.
NotMap(got) == got = <<>> \/ got[1] = <<>>

\* A test that lets every key through.
InActionsFaulty(action) == TRUE
\* `if action in actions`
InActions(action) == action \in ActionKinds

\* The declared index used as it is.
ChannelRefFaulty(i) == i
\* `i - 1`: the zero-based strip index handed to the handler.
ChannelRef(i) == i - 1

\* strip[i] of the mixer: Python indexing of a tuple of NumStrips strips.
Addressable(ref) == ref >= 0 - NumStrips /\ ref < NumStrips
StripAt(ref) == IF ref < 0 THEN ref + NumStrips ELSE ref

\* The two nested for loops: the first (k, j) at or after the given one, in
\* declared order, that names a call to make; k = Len(map_) + 1 at the end.
RECURSIVE Advance(_, _, _)
Advance(map_, k, j) ==
    IF k > Len(map_) THEN <<k, 1>>
    ELSE IF InActions(map_[k].kind) /\ j <= Len(map_[k].indices) THEN <<k, j>>
    ELSE Advance(map_, k + 1, 1)

\* The other order of iteration: the keys in reverse.
RECURSIVE Reversed(_)
Reversed(s) == IF s = <<>> THEN <<>> ELSE Append(Reversed(Tail(s)), Head(s))

ItemsFaulty(map_) == Reversed(map_)
\* map_.items(): the keys in declared order.
Items(map_) == map_

\* A mute handler that unmutes.
MuteValueFaulty == FALSE
\* The values the three handlers write.
MuteValue == TRUE
UnmuteValue == FALSE
\* A _mute_handler that flips the flag it finds.
WrittenValueFaulty(kind, cur) == IF kind = "mute" THEN ~cur ELSE UnmuteValue
\* The value _mute_handler / _unmute_handler assigns, whatever the strip's
\* current flag is.
WrittenValue(kind, cur) == IF kind = "mute" THEN MuteValue ELSE UnmuteValue

\* A toggle that mutes whatever it read.
ToggleValueStuck(read) == TRUE
\* A toggle that writes back what it read.
ToggleValueFaulty(read) == read
ToggleValue(read) == ~read

Access(op, kind, idx, ch, val) ==
    [op |-> op, kind |-> kind, idx |-> idx, ch |-> ch, val |-> val]

CurrentMap(w) == Items(MappingGet(mapping, wscene[w])[1])

\* The callback delivery context can run: the event client is connected and
\* the process has not exited.
Delivering ==
    /\ conn["event"] = "open"
    /\ registered
    /\ pc \notin {"done", "crashed"}

Running == pc \notin {"done", "crashed"}

\* Lines 82-92: the event arrives, the scene is looked up, and the loops are
\* entered up to the first handler call.
OnSceneChanged(w, scene) ==
    /\ Delivering
    /\ wpc[w] = "idle"
    /\ LET got == MappingGet(mapping, scene)
           pos == IF NotMap(got) THEN <<1, 1>>
                  ELSE Advance(Items(got[1]), 1, 1)
           ends == NotMap(got) \/ pos[1] > Len(got[1])
       IN /\ wscene' = [wscene EXCEPT ![w] = scene]
          /\ pre' = [pre EXCEPT ![w] = mute]
          /\ prev' = [prev EXCEPT
                        ![w] = IF /\ outcome[w] = "returned"
                                  /\ wscene[w] = scene
                                  /\ ~NotMap(got)
                               THEN <<pre[w]>> ELSE <<>>]
          /\ calls' = [calls EXCEPT ![w] = <<>>]
          /\ wk' = [wk EXCEPT ![w] = IF ends THEN 1 ELSE pos[1]]
          /\ wj' = [wj EXCEPT ![w] = IF ends THEN 1 ELSE pos[2]]
          /\ wpc' = [wpc EXCEPT ![w] = IF ends THEN "idle" ELSE "loop"]
          /\ outcome' = [outcome EXCEPT
                           ![w] = IF ends THEN "returned" ELSE "running"]
    /\ UNCHANGED <<mainVars, stop_event, mute, wtmp>>

\* After a handler returned: the loops go on to the next call, or the
\* callback returns.
Continue(w) ==
    LET map_ == CurrentMap(w)
        pos == Advance(map_, wk[w], wj[w] + 1)
        ends == pos[1] > Len(map_)
    IN /\ wk' = [wk EXCEPT ![w] = IF ends THEN 1 ELSE pos[1]]
       /\ wj' = [wj EXCEPT ![w] = IF ends THEN 1 ELSE pos[2]]
       /\ wpc' = [wpc EXCEPT ![w] = IF ends THEN "idle" ELSE "loop"]
       /\ outcome' = [outcome EXCEPT
                        ![w] = IF ends THEN "returned" ELSE "running"]

\* A failure that undoes the writes the dispatch had made.
RaiseFaulty(w) ==
    /\ \E next \in {"idle", "dead"} : wpc' = [wpc EXCEPT ![w] = next]
    /\ outcome' = [outcome EXCEPT ![w] = "raised"]
    /\ wk' = [wk EXCEPT ![w] = 1]
    /\ wj' = [wj EXCEPT ![w] = 1]
    /\ mute' = pre[w]
    /\ UNCHANGED <<calls, wtmp>>

\* A mixer call raised: the exception leaves the callback (nothing in it
\* catches). What the delivery context then does is the client library's
\* choice: it goes on with the next event, or its thread ends.
Raise(w) ==
    /\ \E next \in {"idle", "dead"} : wpc' = [wpc EXCEPT ![w] = next]
    /\ outcome' = [outcome EXCEPT ![w] = "raised"]
    /\ wk' = [wk EXCEPT ![w] = 1]
    /\ wj' = [wj EXCEPT ![w] = 1]
    /\ UNCHANGED <<mute, calls, wtmp>>

\* The mixer can serve a call on strip[ref].
Served(ref) == Addressable(ref) /\ conn["mixer"] = "open"

\* Line 97 with _mute_handler / _unmute_handler, or the read of
\* _toggle_handler: one mixer access.
HandlerCall(w) ==
    /\ Running
    /\ wpc[w] = "loop"
    /\ LET map_ == CurrentMap(w)
           kind == map_[wk[w]].kind
           i == map_[wk[w]].indices[wj[w]]
           ref == ChannelRef(i)
           ch == StripAt(ref)
       IN IF ~Served(ref) THEN Raise(w)
          ELSE IF kind = "toggle"
          THEN /\ wtmp' = [wtmp EXCEPT ![w] = mute[ch]]
               /\ calls' = [calls EXCEPT ![w] =
                              Append(@, Access("get", kind, i, ch, mute[ch]))]
               /\ wpc' = [wpc EXCEPT ![w] = "toggle_set"]
               /\ UNCHANGED <<mute, wk, wj, outcome>>
          ELSE LET val == WrittenValue(kind, mute[ch])
               IN /\ mute' = [mute EXCEPT ![ch] = val]
                  /\ calls' = [calls EXCEPT ![w] =
                                 Append(@, Access("set", kind, i, ch, val))]
                  /\ Continue(w)
                  /\ UNCHANGED wtmp
    /\ UNCHANGED <<mainVars, stop_event, wscene, pre, prev>>

\* The write of _toggle_handler: strip[i].mute = not <the value read>.
ToggleSet(w) ==
    /\ Running
    /\ wpc[w] = "toggle_set"
    /\ LET map_ == CurrentMap(w)
           i == map_[wk[w]].indices[wj[w]]
           ref == ChannelRef(i)
           ch == StripAt(ref)
           val == ToggleValue(wtmp[w])
       IN IF ~Served(ref) THEN Raise(w)
          ELSE /\ mute' = [mute EXCEPT ![ch] = val]
               /\ calls' = [calls EXCEPT ![w] =
                              Append(@, Access("set", "toggle", i, ch, val))]
               /\ Continue(w)
               /\ UNCHANGED wtmp
    /\ UNCHANGED <<mainVars, stop_event, wscene, pre, prev>>

\* ------------------------------------------------ the dispatcher on its own
\* The state once main() waits: everything connected, callbacks registered.
WorkersIdle ==
    /\ wpc = [w \in Threads |-> "idle"]
    /\ wscene = [w \in Threads |-> "Other"]
    /\ wk = [w \in Threads |-> 1]
    /\ wj = [w \in Threads |-> 1]
    /\ wtmp = [w \in Threads |-> FALSE]
    /\ calls = [w \in Threads |-> <<>>]
    /\ pre = [w \in Threads |-> mute]
    /\ prev = [w \in Threads |-> <<>>]
    /\ outcome = [w \in Threads |-> "none"]

\* Where a configuration file may lie: the working directory, the script's
\* directory, ~/.config/xair-obs, and wherever an absolute name points.
Locations == {"cwd", "script", "home", "abs"}

File(kind, doc) == [kind |-> kind, doc |-> doc]
Absent == File("absent", <<>>)

Connected(m) ==
    /\ pc = "wait"
    /\ exc = ""
    /\ argname = "rel"
    /\ fs = [l \in Locations |->
               IF l = "cwd" THEN File("toml", m) ELSE Absent]
    /\ filepath = "cwd"
    /\ mapping = m
    /\ conn = [c \in Clients |-> "open"]
    /\ released = [c \in Clients |-> 0]
    /\ registered = TRUE
    /\ stop_event = FALSE
    /\ mute \in [Channels -> BOOLEAN]
    /\ WorkersIdle

Init == \E aset \in ActionSets : Connected(OneSceneMapping(aset))

\* One delivery thread, as OBS reports one scene change after another.
Next ==
    \/ \E scene \in SceneNames : OnSceneChanged("t1", scene)
    \/ HandlerCall("t1")
    \/ ToggleSet("t1")

Spec == Init /\ [][Next]_vars

\* ------------------------------------------------------------ load_config
Directory == File("dir", <<>>)
\* A regular file that is not valid TOML.
Malformed == File("bad", <<>>)
Toml(doc) == File("toml", doc)

\* The scene_mapping of the configuration file: "Live" toggles the first
\* strip, "Break" mutes it and then names a strip the mixer does not have.
DocA ==
    <<[name |-> "Live",
       actions |-> <<[kind |-> "toggle", indices |-> <<1>>]>>],
      [name |-> "Break",
       actions |-> <<[kind |-> "mute", indices |-> <<1, NumStrips + 1>>]>>]>>

Files == {Absent, Directory, Malformed, Toml(DocA)}

\* The four candidates of get_filepath, in its order, as the locations they
\* name. Path(config) of a relative name is resolved against the working
\* directory; joining a directory with an absolute name gives that name.
Candidates(arg) ==
    IF arg = "rel" THEN <<"cwd", "cwd", "script", "home">>
    ELSE <<"abs", "abs", "abs", "abs">>

\* filepath.is_file()
IsFile(files, loc) == files[loc].kind \in {"bad", "toml"}

\* A search that keeps the last candidate that is a file.
RECURSIVE GetFilepathFaulty(_, _)
GetFilepathFaulty(files, cands) ==
    IF cands = <<>> THEN ""
    ELSE IF IsFile(files, cands[Len(cands)]) THEN cands[Len(cands)]
    ELSE GetFilepathFaulty(files, SubSeq(cands, 1, Len(cands) - 1))

\* A search that passes over files that do not parse.
RECURSIVE GetFilepathParsable(_, _)
GetFilepathParsable(files, cands) ==
    IF cands = <<>> THEN ""
    ELSE IF files[Head(cands)].kind = "toml" THEN Head(cands)
    ELSE GetFilepathParsable(files, Tail(cands))

\* get_filepath: the first candidate that is a file, "" (None) if none is.
RECURSIVE GetFilepath(_, _)
GetFilepath(files, cands) ==
    IF cands = <<>> THEN ""
    ELSE IF IsFile(files, Head(cands)) THEN Head(cands)
    ELSE GetFilepath(files, Tail(cands))

\* config = load_config(args.config), once it returned.
config == fs[filepath].doc

\* ------------------------------------------------------------------- main
\* An exception leaves main(): the process ends abnormally.
Fail(name, at) ==
    /\ exc' = name
    /\ pc' = at

\* Line 191.
LoadConfig ==
    /\ pc = "start"
    /\ LET found == GetFilepath(fs, Candidates(argname))
       IN /\ filepath' = found
          /\ IF found = "" THEN Fail("FileNotFoundError", "exiting")
             ELSE IF fs[found].kind # "toml"
             THEN Fail("TOMLDecodeError", "exiting")
             ELSE pc' = "mixer_connect" /\ UNCHANGED exc
    /\ UNCHANGED <<argname, fs, mapping, conn, released, registered,
                   stop_event, mute, workerVars>>

\* Line 193, entering the with: the mixer connection is made, or raises.
\* Line 195: stop_event is a new, unset Event.
MixerConnect(ok) ==
    /\ pc = "mixer_connect"
    /\ IF ok
       THEN /\ conn' = [conn EXCEPT !["mixer"] = "open"]
            /\ pc' = "request_connect"
            /\ UNCHANGED exc
       ELSE Fail("XAirRemoteError", "exiting") /\ UNCHANGED conn
    /\ UNCHANGED <<argname, fs, filepath, mapping, released, registered,
                   stop_event, mute, workerVars>>

\* Lines 51-54 of Observer.__init__. An exception in __init__ leaves the
\* inner with unentered: only the mixer's with is left to unwind.
RequestConnect(ok) ==
    /\ pc = "request_connect"
    /\ mapping' = config
    /\ IF ok
       THEN /\ conn' = [conn EXCEPT !["request"] = "open"]
            /\ pc' = "event_connect"
            /\ UNCHANGED exc
       ELSE Fail("OBSSDKError", "mixer_exit") /\ UNCHANGED conn
    /\ UNCHANGED <<argname, fs, filepath, released, registered, stop_event,
                   mute, workerVars>>

\* Line 55.
EventConnect(ok) ==
    /\ pc = "event_connect"
    /\ IF ok
       THEN /\ conn' = [conn EXCEPT !["event"] = "open"]
            /\ pc' = "register"
            /\ UNCHANGED exc
       ELSE Fail("OBSSDKError", "mixer_exit") /\ UNCHANGED conn
    /\ UNCHANGED <<argname, fs, filepath, mapping, released, registered,
                   stop_event, mute, workerVars>>

\* Lines 56-58.
Register ==
    /\ pc = "register"
    /\ registered' = TRUE
    /\ pc' = "get_version"
    /\ UNCHANGED <<exc, argname, fs, filepath, mapping, conn, released,
                   stop_event, mute, workerVars>>

\* Lines 59-63, then __enter__ and the call of stop_event.wait().
GetVersion(ok) ==
    /\ pc = "get_version"
    /\ IF ok THEN pc' = "wait" /\ UNCHANGED exc
       ELSE Fail("OBSSDKError", "mixer_exit")
    /\ UNCHANGED <<argname, fs, filepath, mapping, conn, released,
                   registered, stop_event, mute, workerVars>>

\* A wait that also returns on its own, as one with a timeout would.
WaitFaulty ==
    /\ pc = "wait"
    /\ pc' = "exit_request"
    /\ UNCHANGED <<exc, argname, fs, filepath, mapping, conn, released,
                   registered, stop_event, mute, workerVars>>

\* Line 198: wait() returns once the event is set; it has no timeout.
Wait ==
    /\ pc = "wait"
    /\ stop_event
    /\ pc' = "exit_request"
    /\ UNCHANGED <<exc, argname, fs, filepath, mapping, conn, released,
                   registered, stop_event, mute, workerVars>>

\* Lines 69-70: client.disconnect() for client in (request, event), in that
\* order; a disconnect that raises ends the loop.
Disconnect(client, ok, then) ==
    /\ released' = [released EXCEPT ![client] = @ + 1]
    /\ IF ok
       THEN /\ conn' = [conn EXCEPT ![client] = "closed"]
            /\ pc' = then
            /\ UNCHANGED exc
       ELSE Fail("DisconnectError", "mixer_exit") /\ UNCHANGED conn

ExitRequest(ok) ==
    /\ pc = "exit_request"
    /\ Disconnect("request", ok, "exit_event")
    /\ UNCHANGED <<argname, fs, filepath, mapping, registered, stop_event,
                   mute, workerVars>>

ExitEvent(ok) ==
    /\ pc = "exit_event"
    /\ Disconnect("event", ok, "mixer_exit")
    /\ UNCHANGED <<argname, fs, filepath, mapping, registered, stop_event,
                   mute, workerVars>>

\* Leaving the with of line 193, normally or with an exception.
MixerExit ==
    /\ pc = "mixer_exit"
    /\ released' = [released EXCEPT !["mixer"] = @ + 1]
    /\ conn' = [conn EXCEPT !["mixer"] = "closed"]
    /\ pc' = "exiting"
    /\ UNCHANGED <<exc, argname, fs, filepath, mapping, registered,
                   stop_event, mute, workerVars>>

\* main() is left and the interpreter exits; the delivery thread is a daemon
\* and ends with it.
ProcessExit ==
    /\ pc = "exiting"
    /\ pc' = IF exc = "" THEN "done" ELSE "crashed"
    /\ UNCHANGED <<exc, argname, fs, filepath, mapping, conn, released,
                   registered, stop_event, mute, workerVars>>

\* Lines 108-110, invoked by the delivery context when OBS is closing.
OnExitStarted(w) ==
    /\ Delivering
    /\ wpc[w] = "idle"
    /\ stop_event' = TRUE
    /\ UNCHANGED <<mainVars, mute, workerVars>>

\* The process as started: nothing loaded, nothing connected.
InitLife ==
    /\ pc = "start"
    /\ exc = ""
    /\ argname \in {"rel", "abs"}
    /\ fs \in [Locations -> Files]
    /\ \A l \in Locations : (l = "abs") # (argname = "abs") => fs[l] = Absent
    /\ filepath = ""
    /\ mapping = <<>>
    /\ conn = [c \in Clients |-> "none"]
    /\ released = [c \in Clients |-> 0]
    /\ registered = FALSE
    /\ stop_event = FALSE
    /\ mute \in [Channels -> BOOLEAN]
    /\ WorkersIdle

NextLife ==
    \/ LoadConfig
    \/ \E ok \in BOOLEAN : MixerConnect(ok)
    \/ \E ok \in BOOLEAN : RequestConnect(ok)
    \/ \E ok \in BOOLEAN : EventConnect(ok)
    \/ Register
    \/ \E ok \in BOOLEAN : GetVersion(ok)
    \/ Wait
    \/ \E ok \in BOOLEAN : ExitRequest(ok)
    \/ \E ok \in BOOLEAN : ExitEvent(ok)
    \/ MixerExit
    \/ ProcessExit
    \/ OnExitStarted("t1")
    \/ \E scene \in SceneNames : OnSceneChanged("t1", scene)
    \/ HandlerCall("t1")
    \/ ToggleSet("t1")

SpecLife == InitLife /\ [][NextLife]_vars

\* ------------------------------------------- overlapping scene changes
\* The delivery context invoking the callback for two events at once, each
\* on a thread of its own, once.
OnSceneChangedOnce(w, scene) ==
    /\ outcome[w] = "none"
    /\ OnSceneChanged(w, scene)

NextConc ==
    \/ \E w \in Threads, scene \in SceneNames : OnSceneChangedOnce(w, scene)
    \/ \E w \in Threads : HandlerCall(w)
    \/ \E w \in Threads : ToggleSet(w)

SpecConc == Init /\ [][NextConc]_vars

\* ------------------------------------------------------- claims C1 .. C5
\* What an ActionSet asks for, read off the table itself: the (kind, index)
\* pairs of its recognised kinds, kinds in declared order and, within a kind,
\* indices in list order.
RECURSIVE PairsOf(_, _)
PairsOf(kind, indices) ==
    IF indices = <<>> THEN <<>>
    ELSE <<[kind |-> kind, idx |-> Head(indices)]>>
         \o PairsOf(kind, Tail(indices))

RECURSIVE Declared(_)
Declared(aset) ==
    IF aset = <<>> THEN <<>>
    ELSE (IF Head(aset).kind \in {"mute", "unmute", "toggle"}
          THEN PairsOf(Head(aset).kind, Head(aset).indices)
          ELSE <<>>)
         \o Declared(Tail(aset))

\* The mixer after the pairs were applied one after the other to m.
RECURSIVE Applied(_, _)
Applied(pairs, m) ==
    IF pairs = <<>> THEN m
    ELSE LET p == Head(pairs)
             c == p.idx - 1
         IN Applied(Tail(pairs),
                    [m EXCEPT ![c] = CASE p.kind = "mute" -> TRUE
                                       [] p.kind = "unmute" -> FALSE
                                       [] p.kind = "toggle" -> ~m[c]])

\* The (kind, index) pairs the logged accesses were made for, in the order
\* made: every set (a toggle's get belongs to the set that follows it).
RECURSIVE PairsMade(_)
PairsMade(log) ==
    IF log = <<>> THEN <<>>
    ELSE (IF Head(log).op = "set"
          THEN <<[kind |-> Head(log).kind, idx |-> Head(log).idx]>>
          ELSE <<>>)
         \o PairsMade(Tail(log))

Range(s) == {s[n] : n \in 1 .. Len(s)}

IsMapped(scene) == \E n \in 1 .. Len(mapping) : mapping[n].name = scene

\* The ActionSet of the scene thread w was invoked for (a mapped scene).
ActionSetOf(w) ==
    mapping[CHOOSE n \in 1 .. Len(mapping) : mapping[n].name = wscene[w]].actions

Invoked(w) == outcome[w] # "none"
Returned(w) == outcome[w] = "returned"

\* C1: an invocation for a scene name that is not a key of the scene mapping
\* returns at once, having made no mixer access (no get, no set), and every
\* strip's mute flag is what it was when the invocation began.
C1_UnmappedSceneNoEffect ==
    \A w \in Threads :
        (Invoked(w) /\ ~IsMapped(wscene[w]))
        => /\ Returned(w)
           /\ wpc[w] = "idle"
           /\ calls[w] = <<>>
           /\ mute = pre[w]

\* An unmapped scene was dispatched on a mixer with a muted strip while the
\* mapped scene has calls to make.
C1_Witness ==
    /\ Returned("t1") /\ wscene["t1"] = "Other"
    /\ Declared(mapping[1].actions) # <<>>
    /\ \E c \in Channels : mute[c]

\* The ActionSet is {kind: S} with every index of S >= 1.
Only(aset, kind) ==
    /\ Len(aset) = 1
    /\ aset[1].kind = kind
    /\ \A i \in Range(aset[1].indices) : i >= 1

\* Every access logged is a set of val for kind, on a strip i-1 named by S;
\* strips not named keep the flag they had; and once the dispatch returned,
\* every named strip was set and holds val.
SetsExactly(w, kind, val) ==
    LET S == ActionSetOf(w)[1].indices
        named == {i - 1 : i \in Range(S)}
    IN /\ \A a \in Range(calls[w]) :
              a.op = "set" /\ a.kind = kind /\ a.val = val /\ a.ch \in named
       /\ \A c \in Channels \ named : mute[c] = pre[w][c]
       /\ Returned(w)
          => /\ {a.ch : a \in Range(calls[w])} = named
             /\ \A c \in Channels : mute[c] = (IF c \in named THEN val
                                                ELSE pre[w][c])

\* C2: for a mapped scene whose ActionSet is {mute: S}, S of indices >= 1, the
\* dispatch sets mute = true on exactly the strips {i-1 : i in S} and on no
\* other; {unmute: S} sets mute = false on exactly those; every strip the
\* ActionSet does not name keeps its flag.
C2_MuteUnmuteExactChannels ==
    \A w \in Threads :
        (Invoked(w) /\ IsMapped(wscene[w]))
        => /\ Only(ActionSetOf(w), "mute") => SetsExactly(w, "mute", TRUE)
           /\ Only(ActionSetOf(w), "unmute") => SetsExactly(w, "unmute", FALSE)

\* {mute: [1, 2]} returned on a mixer whose strips were both unmuted.
C2_Witness ==
    /\ Returned("t1") /\ wscene["t1"] = "Live"
    /\ mapping[1].actions = <<[kind |-> "mute", indices |-> <<1, 2>>]>>
    /\ pre["t1"] = [c \in Channels |-> FALSE]
    /\ Len(calls["t1"]) = 2

\* C3: for a mapped scene with ActionSet {toggle: [i]}, i >= 1, the dispatch
\* gets the mute flag of strip i-1 as it is at that time and sets its
\* negation: a muted strip ends unmuted, an unmuted one muted.
C3_ToggleNegatesCurrent ==
    \A w \in Threads :
        (Returned(w) /\ IsMapped(wscene[w])
         /\ Only(ActionSetOf(w), "toggle")
         /\ Len(ActionSetOf(w)[1].indices) = 1)
        => LET c == ActionSetOf(w)[1].indices[1] - 1
           IN /\ Len(calls[w]) = 2
              /\ calls[w][1].op = "get" /\ calls[w][1].ch = c
              /\ calls[w][1].val = pre[w][c]
              /\ calls[w][2].op = "set" /\ calls[w][2].ch = c
              /\ calls[w][2].val = ~pre[w][c]
              /\ mute = [pre[w] EXCEPT ![c] = ~pre[w][c]]

\* {toggle: [2]} returned with strip 1 muted before: it ends unmuted.
C3_Witness ==
    /\ Returned("t1") /\ wscene["t1"] = "Live"
    /\ mapping[1].actions = <<[kind |-> "toggle", indices |-> <<2>>]>>
    /\ pre["t1"][1] /\ ~mute[1]

\* C4: within one dispatch the actions are applied in declared order (kinds
\* as the ActionSet declares them, indices in list order), so the last action
\* on a strip decides its flag: {mute: [1], unmute: [1]} leaves strip 0
\* unmuted, {unmute: [1], mute: [1]} leaves it muted.
C4_DeclaredOrderLastWins ==
    \A w \in Threads :
        (Returned(w) /\ IsMapped(wscene[w])
         /\ \A p \in Range(Declared(ActionSetOf(w))) : p.idx >= 1)
        => /\ PairsMade(calls[w]) = Declared(ActionSetOf(w))
           /\ mute = Applied(Declared(ActionSetOf(w)), pre[w])
           /\ ActionSetOf(w) = <<[kind |-> "mute", indices |-> <<1>>],
                                 [kind |-> "unmute", indices |-> <<1>>]>>
              => ~mute[0]
           /\ ActionSetOf(w) = <<[kind |-> "unmute", indices |-> <<1>>],
                                 [kind |-> "mute", indices |-> <<1>>]>>
              => mute[0]

\* {unmute: [1], mute: [1]} returned on a mixer whose strip 0 was unmuted.
C4_Witness ==
    /\ Returned("t1") /\ wscene["t1"] = "Live"
    /\ mapping[1].actions = <<[kind |-> "unmute", indices |-> <<1>>],
                              [kind |-> "mute", indices |-> <<1>>]>>
    /\ ~pre["t1"][0] /\ mute[0]

\* C5: every mixer access a dispatch makes for a declared index i >= 1, of any
\* recognised kind, is on strip i-1 and no other; and a dispatch that returned
\* has addressed strip i-1 for every (kind, i) it declares.
C5_ChannelRefIsIndexMinusOne ==
    \A w \in Threads :
        /\ \A a \in Range(calls[w]) :
               /\ a.kind \in {"mute", "unmute", "toggle"}
               /\ a.idx >= 1 => a.ch = a.idx - 1
        /\ (Returned(w) /\ IsMapped(wscene[w]))
           => \A p \in Range(Declared(ActionSetOf(w))) :
                  p.idx >= 1
                  => \E a \in Range(calls[w]) :
                         a.kind = p.kind /\ a.idx = p.idx /\ a.ch = p.idx - 1

\* A toggle and a mute on the two strips both returned.
C5_Witness ==
    /\ Returned("t1") /\ wscene["t1"] = "Live"
    /\ mapping[1].actions = <<[kind |-> "toggle", indices |-> <<2>>],
                              [kind |-> "mute", indices |-> <<1>>]>>
    /\ Len(calls["t1"]) = 3

\* ------------------------------------------------------ claims C6 .. C10
Exited == pc \in {"done", "crashed"}

\* C6: a shutdown notification delivered while main() is blocked in
\* stop_event.wait() makes the wait return, and each connection (request
\* client, event client, mixer) is then released exactly once. Stated of the
\* runs in which the wait returned (the teardown began), once the process has
\* exited.
C6_ShutdownReleasesEachOnce ==
    (Exited /\ released["request"] >= 1)
    => \A c \in Clients : released[c] = 1

\* C7: on every exit path of main(), normal or abnormal, every connection
\* that was established has been released, and none more than once.
C7_ExitReleasesEstablished ==
    Exited
    => \A c \in Clients : /\ conn[c] # "none" => released[c] = 1
                          /\ released[c] <= 1

\* The calls the invocation of thread w declares (none for an unmapped scene).
DeclaredFor(w) ==
    IF IsMapped(wscene[w]) THEN Declared(ActionSetOf(w)) ELSE <<>>

Other(w) == CHOOSE v \in Threads : v # w

\* C8: when the callback is invoked for two overlapping scene changes, the
\* mixer accesses of the two invocations do not interleave: once both have
\* returned, the mixer is what running the two dispatches one after the
\* other, in one order or the other, makes of the state the first began in.
C8_OverlappingDispatchesSerialize ==
    (/\ \A w \in Threads : Returned(w)
     /\ \A w \in Threads : \A p \in Range(DeclaredFor(w)) : p.idx >= 1)
    => \E a \in Threads :
          \/ mute = Applied(DeclaredFor(Other(a)),
                            Applied(DeclaredFor(a), pre[a]))
          \/ mute = Applied(DeclaredFor(a),
                            Applied(DeclaredFor(Other(a)), pre[a]))

\* C9: a mixer call that fails during one invocation is isolated to that
\* event: with main() in its wait and the event client connected, later
\* scene changes are still dispatched and a later shutdown notification
\* still sets the stop condition.
C9_DispatchFailureIsolated ==
    \A w \in Threads :
        (outcome[w] = "raised" /\ Delivering /\ pc = "wait")
        => /\ ENABLED OnExitStarted(w)
           /\ ENABLED OnSceneChanged(w, "Live")

\* C10: load_config takes the first of its candidates, in the order literal
\* path, working directory, script directory, ~/.config/xair-obs, that is a
\* regular file, whatever later candidates exist, and loads that one; if none
\* is, it fails with the not-found error. (A relative name's literal path is
\* the one in the working directory; an absolute name makes all four
\* candidates that name.)
C10_FirstExistingCandidate ==
    LET regular(l) == fs[l].kind \notin {"absent", "dir"}
        first == IF argname = "abs"
                 THEN (IF regular("abs") THEN "abs" ELSE "")
                 ELSE IF regular("cwd") THEN "cwd"
                 ELSE IF regular("script") THEN "script"
                 ELSE IF regular("home") THEN "home"
                 ELSE ""
    IN pc # "start"
       => /\ filepath = first
          /\ (first = "") <=> (exc = "FileNotFoundError")
          /\ first = "" => pc \in {"exiting", "crashed"}
          /\ mapping # <<>> => mapping = fs[first].doc

\* Only the third candidate is loadable (the working directory holds a
\* directory of that name), a later one exists too, and it was loaded.
C10_Witness ==
    /\ argname = "rel"
    /\ fs["cwd"] = Directory
    /\ fs["script"] = Toml(DocA)
    /\ fs["home"] = Malformed
    /\ filepath = "script"
    /\ mapping = DocA
    /\ pc = "wait"

\* ----------------------------------------------------- claims C11 .. C19
\* C11: no connection (mixer or OBS) is attempted unless the configuration was
\* located and parsed: when no candidate is a file, or the first candidate
\* that is a file does not parse (later candidates are not tried), the
\* process ends abnormally with no connection opened and no callback
\* registered; and whatever is connected or registered, the file found parsed.
C11_NoConnectionWithoutConfig ==
    LET regular == {n \in DOMAIN Candidates(argname) :
                      fs[Candidates(argname)[n]].kind \in {"bad", "toml"}}
        unusable == \/ regular = {}
                    \/ \E n \in regular :
                          /\ \A k \in regular : n <= k
                          /\ fs[Candidates(argname)[n]].kind = "bad"
        untouched == /\ \A c \in Clients : conn[c] = "none" /\ released[c] = 0
                     /\ ~registered
                     /\ \A w \in Threads : ~Invoked(w)
    IN /\ pc = "start" => untouched
       /\ (pc # "start" /\ unusable)
          => /\ untouched
             /\ exc \in {"FileNotFoundError", "TOMLDecodeError"}
             /\ pc \in {"exiting", "crashed"}
       /\ ~untouched => (filepath # "" /\ fs[filepath].kind = "toml")

\* The working directory holds a malformed file and the script directory a
\* valid one: the process crashed on the first, with nothing connected.
C11_Witness ==
    /\ argname = "rel"
    /\ fs["cwd"] = Malformed
    /\ fs["script"] = Toml(DocA)
    /\ pc = "crashed"
    /\ exc = "TOMLDecodeError"
    /\ \A c \in Clients : conn[c] = "none"


\* The lifecycle state main() is in. Failed: an exception is propagating out
\* of main() or has ended the process.
Phase ==
    IF exc # "" THEN "Failed"
    ELSE CASE pc = "start" -> "Idle"
           [] pc \in {"mixer_connect", "request_connect", "event_connect",
                      "register", "get_version"} -> "Connecting"
           [] pc = "wait" -> "Connected"
           [] pc \in {"exit_request", "exit_event", "mixer_exit",
                      "exiting"} -> "ShuttingDown"
           [] pc = "done" -> "Closed"

LifecycleStep ==
    /\ Phase' # Phase
       => <<Phase, Phase'>> \in {<<"Idle", "Connecting">>,
                                 <<"Connecting", "Connected">>,
                                 <<"Connected", "ShuttingDown">>,
                                 <<"ShuttingDown", "Closed">>,
                                 <<"Idle", "Failed">>,
                                 <<"Connecting", "Failed">>,
                                 <<"ShuttingDown", "Failed">>}
    /\ (Phase' = "Connected" /\ Phase # "Connected")
       => /\ \A c \in Clients : conn'[c] = "open"
          /\ registered'
    /\ (Phase = "Connected" /\ Phase' # "Connected") => stop_event
    /\ (~stop_event /\ stop_event') => \E w \in Threads : OnExitStarted(w)
    /\ (Phase' = "Closed" /\ Phase # "Closed")
       => \A c \in Clients : conn'[c] = "closed" /\ released'[c] = 1
    /\ Phase \in {"Closed", "Failed"} => Phase' = Phase

\* C12: the lifecycle takes only the transitions Idle -> Connecting ->
\* Connected -> ShuttingDown -> Closed, or ends in failure. Connected is
\* entered only with all connections open and the callbacks registered; after
\* a connection failure nothing is registered or dispatched; ShuttingDown is
\* entered from Connected only once the shutdown notification has set the stop
\* condition; Closed is entered only with every connection released; nothing
\* leaves Closed (or the failure).
C12_LifecycleTransitions ==
    /\ []((\E c \in Clients : conn[c] = "none")
          => (~registered /\ \A w \in Threads : ~Invoked(w)))
    /\ [][LifecycleStep]_vars

\* Closed was reached after scene changes were dispatched.
C12_Witness ==
    /\ pc = "done"
    /\ Returned("t1")
    /\ \A c \in Clients : released[c] = 1


\* The ActionSet without its keys other than mute, unmute and toggle.
RECURSIVE Known(_)
Known(aset) ==
    IF aset = <<>> THEN <<>>
    ELSE (IF Head(aset).kind \in {"mute", "unmute", "toggle"}
          THEN <<Head(aset)>> ELSE <<>>)
         \o Known(Tail(aset))

\* The indices listed under the recognised keys, in declared order.
RECURSIVE KnownIndices(_)
KnownIndices(aset) ==
    IF aset = <<>> THEN <<>>
    ELSE (IF Head(aset).kind \in {"mute", "unmute", "toggle"}
          THEN Head(aset).indices ELSE <<>>)
         \o KnownIndices(Tail(aset))

\* C13: a key of an ActionSet other than mute, unmute and toggle is inert. No
\* mixer access is made for it; it raises no error (a dispatch whose
\* recognised keys name strips of the mixer returns, whatever indices the
\* unknown key lists); and the recognised kinds declared before and after it
\* are executed in their declared order, as if the key were not there.
C13_UnknownKeyInert ==
    \A w \in Threads :
        (Invoked(w) /\ IsMapped(wscene[w]))
        => LET aset == ActionSetOf(w)
               inrange == \A i \in Range(KnownIndices(aset)) :
                              i >= 1 /\ i <= NumStrips
           IN /\ \A a \in Range(calls[w]) :
                     /\ a.kind \in {"mute", "unmute", "toggle"}
                     /\ \E n \in 1 .. Len(aset) :
                            /\ aset[n].kind = a.kind
                            /\ a.idx \in Range(aset[n].indices)
              /\ inrange => outcome[w] # "raised"
              /\ (inrange /\ Returned(w))
                 => /\ PairsMade(calls[w]) = Declared(Known(aset))
                    /\ mute = Applied(Declared(Known(aset)), pre[w])

\* An unknown key listing a strip the mixer does not have, declared before a
\* mute that was then made.
C13_Witness ==
    /\ Returned("t1") /\ wscene["t1"] = "Live"
    /\ mapping[1].actions = <<[kind |-> "solo", indices |-> <<NumStrips + 1>>],
                              [kind |-> "mute", indices |-> <<1>>]>>
    /\ ~pre["t1"][0] /\ mute[0]
    /\ Len(calls["t1"]) = 1


\* C14: once the connections are established and main() waits, it stays in
\* the wait, and no connection is released, as long as the shutdown handler
\* has not run, whatever scene changes are dispatched; the teardown is entered
\* only with the stop condition set, and nothing else (no timeout) ends the
\* wait.
C14_BlockedUntilShutdown ==
    /\ []((\/ pc \in {"exit_request", "exit_event"}
           \/ released["request"] >= 1
           \/ released["event"] >= 1) => stop_event)
    /\ []((pc = "wait" /\ ~stop_event)
          => (/\ ~ENABLED Wait
              /\ \A c \in Clients : conn[c] = "open" /\ released[c] = 0))
    /\ [][(pc = "wait" /\ ~stop_event)
          => (pc' = "wait" /\ released' = released /\ conn' = conn
              /\ exc' = exc)]_vars

\* main() still waits, with nothing released, after a dispatch that changed
\* the mixer and then raised.
C14_Witness ==
    /\ pc = "wait" /\ ~stop_event
    /\ outcome["t1"] = "raised" /\ wpc["t1"] = "idle"
    /\ wscene["t1"] = "Break"
    /\ mute # pre["t1"]
    /\ \A c \in Clients : released[c] = 0


\* main() keeps running: each of its steps is taken once it can be.
MainStep ==
    \/ LoadConfig
    \/ \E ok \in BOOLEAN : MixerConnect(ok)
    \/ \E ok \in BOOLEAN : RequestConnect(ok)
    \/ \E ok \in BOOLEAN : EventConnect(ok)
    \/ Register
    \/ \E ok \in BOOLEAN : GetVersion(ok)
    \/ Wait
    \/ \E ok \in BOOLEAN : ExitRequest(ok)
    \/ \E ok \in BOOLEAN : ExitEvent(ok)
    \/ MixerExit
    \/ ProcessExit

SpecLifeFair == SpecLife /\ WF_vars(MainStep)

\* The wake-up itself is not lost: once the stop condition is set, whether
\* main() already waits or is still in Observer.__init__, main() does not
\* stay in (or before) the wait.
WakeUpNotLost ==
    stop_event ~> (pc \notin {"register", "get_version", "wait"})

\* C15: a shutdown notification delivered at any point after the callbacks
\* are registered, also before main() has reached stop_event.wait(), still
\* leads to the connections being released; and the stop condition, once set,
\* is never cleared.
C15_NoLostWakeup ==
    /\ [][(stop_event /\ pc \in {"get_version", "wait"})
          => pc' \in {"get_version", "wait", "exit_request"}]_vars
    /\ []((Exited /\ stop_event /\ released["request"] >= 1)
          => \A c \in Clients : released[c] = 1)
    /\ [][stop_event => stop_event']_vars


\* C16: on teardown the request client is disconnected first, then the event
\* client, and the mixer connection is released only after both; hence no
\* dispatch issues a mixer read or write once the mixer connection has been
\* released, also for scene changes delivered after the stop condition was
\* set. Stated for the teardown in which nothing raised in main() (exc = "").
C16_ReleaseOrdering ==
    /\ []((exc = "" /\ released["event"] >= 1) => conn["request"] = "closed")
    /\ []((exc = "" /\ released["mixer"] >= 1)
          => (conn["request"] = "closed" /\ conn["event"] = "closed"))
    /\ [][(exc = "" /\ conn["mixer"] = "closed")
          => \A w \in Threads : ~(HandlerCall(w) \/ ToggleSet(w))]_vars


\* The mixer after the pairs were applied one after the other to m, each on
\* the strip its index addresses.
RECURSIVE AppliedOn(_, _)
AppliedOn(pairs, m) ==
    IF pairs = <<>> THEN m
    ELSE LET p == Head(pairs)
             c == StripAt(p.idx - 1)
         IN AppliedOn(Tail(pairs),
                      [m EXCEPT ![c] = CASE p.kind = "mute" -> TRUE
                                         [] p.kind = "unmute" -> FALSE
                                         [] p.kind = "toggle" -> ~m[c]])

Raised(w) == outcome[w] = "raised"

\* C17: when the k-th mixer access of a dispatch (in declared order) fails,
\* the writes of the first k-1 (kind, index) pairs remain applied to the
\* mixer, no pair from the k-th on is executed, the failing step itself
\* writes nothing, and the stop condition is left as it was.
C17_NoRollbackOnFailure ==
    /\ [](\A w \in Threads :
            Raised(w)
            => LET D == Declared(ActionSetOf(w))
                   made == PairsMade(calls[w])
                   n == Len(made)
               IN /\ n < Len(D)
                  /\ made = SubSeq(D, 1, n)
                  /\ ~Served(D[n + 1].idx - 1)
                  /\ mute = AppliedOn(made, pre[w])
                  /\ wpc[w] \in {"idle", "dead"})
    /\ [][\A w \in Threads :
            (Raised(w)' /\ ~Raised(w))
            => (stop_event' = stop_event /\ mute' = mute
                /\ calls' = calls)]_vars

\* A dispatch failed at its second pair after its first pair had changed the
\* mixer.
C17_Witness ==
    /\ Raised("t1")
    /\ Len(PairsMade(calls["t1"])) = 1
    /\ Len(Declared(ActionSetOf("t1"))) = 2
    /\ mute # pre["t1"]


\* No key of the ActionSet is toggle (mute, unmute and unknown keys only).
ToggleFree(aset) == \A n \in 1 .. Len(aset) : aset[n].kind # "toggle"

\* Thread w's invocation directly follows a returned one for the same scene
\* (a scene that has an ActionSet).
Repeated(w) == prev[w] # <<>>

\* C18: for a scene whose ActionSet holds only mute and unmute kinds (and any
\* unknown keys), from every mixer state, dispatching the scene a second time
\* right after the first fails nowhere and leaves the mixer in the state the
\* first dispatch left it in.
C18_ToggleFreeIdempotent ==
    \A w \in Threads :
        (Repeated(w) /\ IsMapped(wscene[w]) /\ ToggleFree(ActionSetOf(w)))
        => /\ ~Raised(w)
           /\ Returned(w) => mute = pre[w]

\* {mute: [1], unmute: [2]} returned a second time; the first dispatch had
\* changed both strips.
C18_Witness ==
    /\ Repeated("t1") /\ Returned("t1")
    /\ mapping[1].actions = <<[kind |-> "mute", indices |-> <<1>>],
                              [kind |-> "unmute", indices |-> <<2>>]>>
    /\ prev["t1"][1][0] = FALSE /\ prev["t1"][1][1] = TRUE
    /\ Len(calls["t1"]) = 2
    /\ mute = pre["t1"]


\* How often index i occurs in the sequence S.
RECURSIVE Occurrences(_, _)
Occurrences(S, i) ==
    IF S = <<>> THEN 0
    ELSE (IF Head(S) = i THEN 1 ELSE 0) + Occurrences(Tail(S), i)

Odd(n) == n % 2 = 1

\* C19: for a scene whose ActionSet is {toggle: S}, once the dispatch has
\* returned, strip i-1 is flipped if i occurs an odd number of times in S and
\* is unchanged if it occurs an even number of times (also zero times); hence
\* a second dispatch of the scene right after the first restores the mixer
\* state that held before the first.
C19_ToggleInvolution ==
    \A w \in Threads :
        (Returned(w) /\ IsMapped(wscene[w]) /\ Only(ActionSetOf(w), "toggle"))
        => LET S == ActionSetOf(w)[1].indices
           IN /\ \A c \in Channels :
                    mute[c] = IF Odd(Occurrences(S, c + 1))
                              THEN ~pre[w][c] ELSE pre[w][c]
              /\ Len(calls[w]) = 2 * Len(S)
              /\ Repeated(w) => mute = prev[w][1]

\* {toggle: [1, 2]} returned a second time: the mixer differs from the state
\* between the two dispatches and equals the state before the first.
C19_Witness ==
    /\ Repeated("t1") /\ Returned("t1")
    /\ mapping[1].actions = <<[kind |-> "toggle", indices |-> <<1, 2>>]>>
    /\ mute # pre["t1"]
    /\ mute = prev["t1"][1]
    /\ mute[0] /\ ~mute[1]


==========================================================================
